---- MODULE Spec2Model ----
(***************************************************************************)
(* Model of src/lib/image-processing/python-strikethrough-removal.py:     *)
(* main() reads a base64 payload from stdin, process_base64_image decodes  *)
(* it, remove_strikethrough_lines runs the OpenCV pipeline (grayscale,     *)
(* threshold, 3x3 closing, 40x1 opening, contours, classification,         *)
(* 3x8 dilation, masked composite) and the result is printed as JSON.      *)
(*                                                                         *)
(* Masks are functions row -> set of columns holding 255.  Colour images   *)
(* are functions row -> column -> <<c0, c1, c2>>.  The OpenCV operations   *)
(* are modelled with OpenCV's conventions: the anchor of a k-wide kernel   *)
(* is k \div 2, erosion and dilation read the same window                  *)
(* [p - anchor, p - anchor + k - 1], pixels outside the image never lower  *)
(* an erosion and never raise a dilation.                                  *)
(***************************************************************************)
EXTENDS Integers, Sequences, FiniteSets, TLC

\* ---------------------------------------------------------------- bounds
ImgW == 44
ImgH == 24
MaxThick == 2

\* ------------------------------------------------------ program constants
THRESH == 180
TEXT_KW == 3
TEXT_KH == 3
HORIZ_KW == 40
HORIZ_KH == 1
MIN_WIDTH == 20
pad == 10
DILATE_KW == 3
DILATE_KH == 8

Cols == 0..(ImgW - 1)
Rows == 0..(ImgH - 1)

Min2(a, b) == IF a < b THEN a ELSE b
Max2(a, b) == IF a > b THEN a ELSE b
SetMin(S) == CHOOSE m \in S : \A n \in S : m <= n
SetMax(S) == CHOOSE m \in S : \A n \in S : m >= n

\* A function as an explicit table and a set as an explicit enumeration:
\* the value is the same, TLC computes it once instead of at every use.
Table(f) == f @@ <<>>
Enum(S, U) == U \cap S

\* ------------------------------------------------------------- the input
\* Colours of the decoded PNG, in PIL's RGB order.
White == <<255, 255, 255>>
Black == <<0, 0, 0>>
Gray180 == <<180, 180, 180>>
Blue == <<0, 0, 255>>
Inks == {Black, Gray180}

Rect(x, y, w, h) == [x |-> x, y |-> y, w |-> w, h |-> h]
NoRect == Rect(0, 0, 0, 0)
InRect(r, x, y) == x >= r.x /\ x < r.x + r.w /\ y >= r.y /\ y < r.y + r.h

\* <<first column, length>> of the drawn horizontal strokes.
LineSpans ==
    { <<0, 19>>, <<0, 20>>, <<5, 19>>, <<ImgW - 19, 19>>, <<ImgW - 20, 20>>,
      <<ImgW - 21, 21>>, <<2, 39>>, <<2, 40>>, <<1, ImgW - 2>> }
LineRows == {2, 11}

\* Glyph boxes relative to the stroke l: none, across its middle, across it
\* with 4 rows above and 1 row below (relative_position is exactly 0.8 for a
\* 1 px stroke), directly above it, more than pad rows above it.
GlyphsFor(l) ==
    { NoRect,
      Rect(l.x + 8, l.y - 6, 4, l.h + 12),
      Rect(l.x + 8, l.y - 4, 4, l.h + 5),
      Rect(l.x + 8, l.y - 6, 4, 6),
      Rect(l.x + 8, l.y - pad - 1, 4, 1) }

\* A second stroke over the same columns: none, inside the padded window
\* below the first, just outside it.
SecondFor(l) ==
    { NoRect,
      Rect(l.x, l.y + l.h + 5, l.w, 1),
      Rect(l.x, l.y + l.h + pad, l.w, 1) }

Lines ==
    { Rect(sp[1], y, sp[2], h) :
        sp \in LineSpans, y \in LineRows, h \in 1..MaxThick }

Scenes ==
    UNION { { [L1 |-> l, L2 |-> s, G |-> g, ink |-> k] :
                s \in SecondFor(l), g \in GlyphsFor(l), k \in Inks } :
            l \in Lines }

DefaultScene ==
    [L1 |-> Rect(2, 11, 40, 1), L2 |-> NoRect,
     G |-> Rect(10, 5, 4, 13), ink |-> Blue]

\* The RGB pixel grid PIL decodes from the PNG of scene sc.
RenderRGB(sc) ==
    Table([y \in Rows |-> Table([x \in Cols |->
        IF InRect(sc.L1, x, y) \/ InRect(sc.L2, x, y) \/ InRect(sc.G, x, y)
        THEN sc.ink ELSE White])])

\* stdin is a sequence of tokens: whitespace, a character outside the
\* base64 alphabet, and chunks of base64 text.
Whitespace == {" ", "\n"}
Junk == {"!"}
\* PNGRGB: base64 of an RGB PNG; PNGGRAY: base64 of a mode-L PNG;
\* TEXT: base64 of bytes that are no image; CUT: base64 text cut so that the
\* number of data characters is 1 more than a multiple of 4;
\* BYTES: bytes that are not valid text in the stream's encoding.
Payloads ==
    { <<>>, <<" ">>, <<"\n", " ">>,
      <<"PNGRGB">>, <<"PNGRGB", "\n">>, <<" ", "PNGRGB">>, <<"!", "PNGRGB">>,
      <<"PNGGRAY">>, <<"TEXT">>, <<"CUT">>, <<"BYTES">>, <<"BYTES", "\n">> }

\* ------------------------------------------------------ OpenCV operations
EmptyMask == Table([y \in Rows |-> {}])
NoImage == <<>>

\* cv2.cvtColor(.., COLOR_RGB2BGR) and COLOR_BGR2RGB: the first and third
\* channel change places.
SwapRB(img) ==
    Table([y \in Rows |-> Table([x \in Cols |->
        <<img[y][x][3], img[y][x][2], img[y][x][1]>>])])

\* cv2.cvtColor(image, COLOR_BGR2GRAY) on 8-bit pixels: the fixed-point
\* 0.114 B + 0.587 G + 0.299 R, rounded.
GrayOf(p) == (p[1] * 1868 + p[2] * 9617 + p[3] * 4899 + 8192) \div 16384
cvtColorGray(img) ==
    Table([y \in Rows |-> Table([x \in Cols |-> GrayOf(img[y][x])])])

\* cv2.threshold(gray, 180, 255, THRESH_BINARY_INV): 0 where gray > thresh,
\* 255 elsewhere.
thresholdInv(g) ==
    Table([y \in Rows |-> Enum({x \in Cols : ~(g[y][x] > THRESH)}, Cols)])

\* cv2.getStructuringElement(MORPH_RECT, (w, h)) as <<w, h>>.
text_kernel == <<TEXT_KW, TEXT_KH>>
horizontal_kernelMut == <<MIN_WIDTH \div 2, HORIZ_KH>>
horizontal_kernel == <<HORIZ_KW, HORIZ_KH>>
kernel_dilate == <<DILATE_KW, DILATE_KH>>

AnchorOf(k) == <<k[1] \div 2, k[2] \div 2>>

\* cv2.erode: the minimum over the kernel window; a pixel outside the image
\* does not lower it.
MorphErode(m, k) ==
    LET ax == AnchorOf(k)[1]
        ay == AnchorOf(k)[2]
    IN Table([y \in Rows |-> Enum(
          {x \in Cols :
             \A dy \in 0..(k[2] - 1) : \A dx \in 0..(k[1] - 1) :
                LET xx == x + dx - ax
                    yy == y + dy - ay
                IN (xx \in Cols /\ yy \in Rows) => xx \in m[yy]}, Cols)])

\* cv2.dilate: the maximum over the same window; a pixel outside the image
\* does not raise it.
MorphDilate(m, k) ==
    LET ax == AnchorOf(k)[1]
        ay == AnchorOf(k)[2]
    IN Table([y \in Rows |-> Enum(
          {x \in Cols :
             \E dy \in 0..(k[2] - 1) : \E dx \in 0..(k[1] - 1) :
                LET xx == x + dx - ax
                    yy == y + dy - ay
                IN xx \in Cols /\ yy \in Rows /\ xx \in m[yy]}, Cols)])

\* cv2.morphologyEx(.., MORPH_CLOSE, ..): dilate, then erode.
MorphClose(m, k) == MorphErode(MorphDilate(m, k), k)
\* cv2.morphologyEx(.., MORPH_OPEN, ..): erode, then dilate.
MorphOpen(m, k) == MorphDilate(MorphErode(m, k), k)

\* The maximal horizontal runs <<row, first column, last column>> of a mask.
RunEnd(S, s) == SetMin({e \in S : e >= s /\ (e + 1) \notin S})
RunsOfRow(m, y) ==
    { <<y, s, RunEnd(m[y], s)>> : s \in {x \in m[y] : (x - 1) \notin m[y]} }
RunsOf(m) == UNION { RunsOfRow(m, y) : y \in Rows }

\* Two runs touch when a pixel of one is 8-adjacent to a pixel of the other.
Touch(r, q) ==
    /\ (r[1] - q[1]) \in {-1, 1}
    /\ r[2] <= q[3] + 1
    /\ q[2] <= r[3] + 1

RECURSIVE Component(_, _)
Component(S, all) ==
    LET n == S \cup {r \in all : \E q \in S : Touch(r, q)}
    IN IF n = S THEN S ELSE Component(n, all)

ContourKey(c) == SetMin({r[1] * ImgW + r[2] : r \in c})

RECURSIVE SeqOfContours(_)
SeqOfContours(S) ==
    IF S = {} THEN <<>>
    ELSE LET c == CHOOSE c \in S : \A d \in S : ContourKey(c) <= ContourKey(d)
         IN <<c>> \o SeqOfContours(S \ {c})

\* cv2.findContours(.., RETR_EXTERNAL, ..): one contour per 8-connected
\* component, each kept as the runs of its component (the components of
\* the modelled images have no holes, so the filled outline is the
\* component itself).
findContours(m) ==
    LET all == RunsOf(m)
    IN SeqOfContours({ Component({r}, all) : r \in all })

\* cv2.boundingRect(contour)
boundingRect(c) ==
    LET x0 == SetMin({r[2] : r \in c})
        y0 == SetMin({r[1] : r \in c})
        x1 == SetMax({r[3] : r \in c})
        y1 == SetMax({r[1] : r \in c})
    IN Rect(x0, y0, x1 - x0 + 1, y1 - y0 + 1)

\* cv2.drawContours(mask, [contour], -1, 255, -1): the filled contour is
\* written over the mask.
drawContours(m, c) ==
    Table([y \in Rows |->
        Enum(m[y] \cup UNION { r[2]..r[3] : r \in {q \in c : q[1] = y} }, Cols)])

\* cv2.bitwise_not on a mask.
bitwise_notMut(m) == m
bitwise_not(m) == Table([y \in Rows |-> Cols \ m[y]])

\* cv2.bitwise_and(image, image, mask=mask) into a new array: the pixel
\* where the mask is set, zero elsewhere.
bitwise_andMut(img, m) == img
bitwise_and(img, m) ==
    Table([y \in Rows |-> Table([x \in Cols |->
        IF x \in m[y] THEN img[y][x] ELSE <<0, 0, 0>>])])

\* ------------------------------------------- classification of a contour
RECURSIVE SumRange(_, _, _)
SumRange(f, lo, hi) == IF lo > hi THEN 0 ELSE f[lo] + SumRange(f, lo + 1, hi)

\* 0.2 < relative_position < 0.8 for relative_position = num / den, den > 0.
\* The code compares float64 values; on the row sums and heights of the
\* modelled images the float64 comparison and this exact one agree (the
\* quotient is 1/5 or 4/5 exactly, or differs from them by more than 0.03).
IsStrikethroughMut(num, den) == 5 * num > den /\ 2 * num < den
IsStrikethrough(num, den) == 5 * num > den /\ 5 * num < 4 * den

NotClassified ==
    [text_top |-> 0, text_bottom |-> 0, text_height |-> 0,
     line_cnt |-> 0, line_sum |-> 0, num |-> 0, den |-> 1, stamped |-> FALSE]

\* One pass of the loop body over contour c: the locals it computes.
\* line_center is line_sum / line_cnt and relative_position is num / den.
ClassifyContour(c, tr, dl) ==
    LET b == boundingRect(c)
        y_start == Max2(0, b.y - pad)
        y_end == Min2(ImgH, b.y + b.h + pad)
        x_start == Max2(0, b.x)
        x_end == Min2(ImgW, b.x + b.w)
        xs == x_start..(x_end - 1)
        ys == y_start..(y_end - 1)
        tcount == [yy \in ys |-> Cardinality(tr[yy] \cap xs)]
        lcount == [yy \in ys |-> Cardinality(dl[yy] \cap xs)]
        text_pixels == SumRange(tcount, y_start, y_end - 1)
        text_top == SetMin({yy \in ys : tcount[yy] > 0}) - y_start
        text_bottom == SetMax({yy \in ys : tcount[yy] > 0}) - y_start
        text_height == text_bottom - text_top
        line_cnt == SumRange(lcount, y_start, y_end - 1)
        line_sum == SumRange([yy \in ys |-> (yy - y_start) * lcount[yy]],
                             y_start, y_end - 1)
        num == line_sum - text_top * line_cnt
        den == line_cnt * Max2(text_height, 1)
        head == [box |-> b, contour |-> c, y_start |-> y_start, y_end |-> y_end,
                 skipped |-> b.w < MIN_WIDTH,
                 text_pixels |-> IF b.w < MIN_WIDTH THEN 0 ELSE text_pixels]
    IN IF b.w < MIN_WIDTH \/ text_pixels = 0 \/ line_cnt = 0
       THEN head @@ NotClassified
       ELSE head @@
            [text_top |-> text_top, text_bottom |-> text_bottom,
             text_height |-> text_height,
             line_cnt |-> line_cnt, line_sum |-> line_sum,
             num |-> num, den |-> den,
             stamped |-> IsStrikethrough(num, den)]

\* ----------------------------------------------------------- the wrapper
RECURSIVE LStrip(_)
LStrip(s) ==
    IF s # <<>> /\ Head(s) \in Whitespace THEN LStrip(Tail(s)) ELSE s
RECURSIVE RStrip(_)
RStrip(s) ==
    IF s # <<>> /\ s[Len(s)] \in Whitespace
    THEN RStrip(SubSeq(s, 1, Len(s) - 1)) ELSE s
\* str.strip()
stripMut(s) == s
strip(s) == RStrip(LStrip(s))

Range(s) == {s[i] : i \in 1..Len(s)}

\* sys.stdin.read(): the text, or a UnicodeDecodeError on bytes that are
\* not text.
ReadRaises(s) == "BYTES" \in Range(s)

IsData(t) == t \notin (Whitespace \cup Junk)
\* base64.b64decode(s) without validate: characters outside the alphabet
\* are dropped before the padding check.
b64data(s) == SelectSeq(s, IsData)

Exc(type, text) == [type |-> type, text |-> text]

\* What lines 93-97 raise on input s, or NoExc.
NoExc == Exc("none", "")
DecodeException(s) ==
    LET d == b64data(s)
    IN IF "CUT" \in Range(d)
       THEN Exc("binascii.Error", "Invalid base64-encoded string")
       ELSE IF d \notin {<<"PNGRGB">>, <<"PNGGRAY">>}
       THEN Exc("UnidentifiedImageError", "cannot identify image file")
       ELSE IF d = <<"PNGGRAY">>
       THEN Exc("cv2.error", "Invalid number of channels in input image")
       ELSE NoExc

\* except Exception, in process_base64_image and in main: every exception
\* but SystemExit.
ProcessCatchesMut(type) == type = "binascii.Error"
ProcessCatches(type) == type # "SystemExit"
OuterCatchesMut(type) == TRUE
OuterCatches(type) == type # "SystemExit"

SuccessResult(img) ==
    [success |-> TRUE,
     processedImage |-> [format |-> "PNG", pixels |-> SwapRB(img)],
     message |-> "Strikethroughs removed successfully"]
FailureResult(e) ==
    [success |-> FALSE, error |-> e.text, message |-> "Failed to process image"]
NoInputJson ==
    [success |-> FALSE, error |-> "No input data received",
     message |-> "No base64 data provided via stdin"]
OuterFailureJson(e) ==
    [success |-> FALSE, error |-> e.text,
     message |-> "Failed to read input or process data"]

\* ---------------------------------------------------------------- state
VARIABLES
    stdin,              \* the tokens on standard input
    scene,              \* the picture a PNG chunk of stdin encodes
    pc,                 \* the statement the process is at
    base64_input,       \* main: the stripped input
    called,             \* whether process_base64_image was entered
    exc,                \* the exception travelling to a handler
    opencv_image,       \* process_base64_image: the decoded BGR image
    binary, text_regions, detected_lines,
    contours, idx, trace,
    strikethrough_mask, thick_lines,
    cleaned_image,
    result,             \* <<>> or <<the dict process_base64_image returned>>
    stdout,             \* the JSON objects printed
    exit_code

vars ==
    <<stdin, scene, pc, base64_input, called, exc, opencv_image, binary,
      text_regions, detected_lines, contours, idx, trace, strikethrough_mask,
      thick_lines, cleaned_image, result, stdout, exit_code>>

pipeVars ==
    <<opencv_image, binary, text_regions, detected_lines, contours, idx,
      trace, strikethrough_mask, thick_lines, cleaned_image>>

Init ==
    /\ \/ stdin \in Payloads /\ scene = DefaultScene
       \/ stdin = <<"PNGRGB">> /\ scene \in Scenes
    /\ pc = "main"
    /\ base64_input = <<>>
    /\ called = FALSE
    /\ exc = NoExc
    /\ opencv_image = NoImage
    /\ binary = EmptyMask
    /\ text_regions = EmptyMask
    /\ detected_lines = EmptyMask
    /\ contours = <<>>
    /\ idx = 1
    /\ trace = <<>>
    /\ strikethrough_mask = EmptyMask
    /\ thick_lines = EmptyMask
    /\ cleaned_image = NoImage
    /\ result = <<>>
    /\ stdout = <<>>
    /\ exit_code = 0

\* An exception e raised inside main's try block.
RaiseInMain(e) ==
    IF OuterCatches(e.type)
    THEN pc' = "except" /\ exc' = e /\ exit_code' = exit_code
    ELSE pc' = "exited" /\ exc' = e /\ exit_code' = 1

\* main, lines 127-139: read, strip, the empty-input branch, the call.
main_read ==
    /\ pc = "main"
    /\ IF ReadRaises(stdin)
       THEN /\ RaiseInMain(Exc("UnicodeDecodeError", "codec can't decode byte"))
            /\ UNCHANGED <<base64_input, called, stdout>>
       ELSE /\ base64_input' = strip(stdin)
            /\ IF strip(stdin) = <<>>
               THEN /\ stdout' = Append(stdout, NoInputJson)
                    /\ RaiseInMain(Exc("SystemExit", "1"))
                    /\ called' = called
               ELSE /\ pc' = "decode"
                    /\ called' = TRUE
                    /\ UNCHANGED <<stdout, exc, exit_code>>
    /\ UNCHANGED <<stdin, scene, result>>
    /\ UNCHANGED pipeVars

\* main, lines 142-148: the outer handler prints and exits 1.
main_except ==
    /\ pc = "except"
    /\ stdout' = Append(stdout, OuterFailureJson(exc))
    /\ pc' = "exited"
    /\ exit_code' = 1
    /\ UNCHANGED <<stdin, scene, base64_input, called, exc, result>>
    /\ UNCHANGED pipeVars

\* process_base64_image, lines 91-97 and 116-121: decode, or fail.
decode ==
    /\ pc = "decode"
    /\ LET e == DecodeException(base64_input)
       IN IF e = NoExc
          THEN /\ opencv_image' = SwapRB(RenderRGB(scene))
               /\ pc' = "binarize"
               /\ UNCHANGED <<result, exc, exit_code>>
          ELSE IF ProcessCatches(e.type)
          THEN /\ result' = <<FailureResult(e)>>
               /\ pc' = "print"
               /\ UNCHANGED <<opencv_image, exc, exit_code>>
          ELSE /\ RaiseInMain(e)
               /\ UNCHANGED <<opencv_image, result>>
    /\ UNCHANGED <<stdin, scene, base64_input, called, stdout>>
    /\ UNCHANGED <<binary, text_regions, detected_lines, contours, idx, trace,
                   strikethrough_mask, thick_lines, cleaned_image>>

\* remove_strikethrough_lines, lines 13-16.
binarize ==
    /\ pc = "binarize"
    /\ binary' = thresholdInv(cvtColorGray(opencv_image))
    /\ pc' = "close"
    /\ UNCHANGED <<stdin, scene, base64_input, called, exc, result, stdout,
                   exit_code, opencv_image, text_regions, detected_lines,
                   contours, idx, trace, strikethrough_mask, thick_lines,
                   cleaned_image>>

\* lines 19-20.
close_text ==
    /\ pc = "close"
    /\ text_regions' = MorphClose(binary, text_kernel)
    /\ pc' = "open"
    /\ UNCHANGED <<stdin, scene, base64_input, called, exc, result, stdout,
                   exit_code, opencv_image, binary, detected_lines,
                   contours, idx, trace, strikethrough_mask, thick_lines,
                   cleaned_image>>

\* lines 23-24.
open_lines ==
    /\ pc = "open"
    /\ detected_lines' = MorphOpen(binary, horizontal_kernel)
    /\ pc' = "contours"
    /\ UNCHANGED <<stdin, scene, base64_input, called, exc, result, stdout,
                   exit_code, opencv_image, binary, text_regions,
                   contours, idx, trace, strikethrough_mask, thick_lines,
                   cleaned_image>>

\* lines 27-30.
find_contours ==
    /\ pc = "contours"
    /\ contours' = findContours(detected_lines)
    /\ strikethrough_mask' = EmptyMask
    /\ idx' = 1
    /\ pc' = "loop"
    /\ UNCHANGED <<stdin, scene, base64_input, called, exc, result, stdout,
                   exit_code, opencv_image, binary, text_regions,
                   detected_lines, trace, thick_lines, cleaned_image>>

\* lines 32-74: the loop body for the next contour.
classify_contour ==
    /\ pc = "loop"
    /\ idx <= Len(contours)
    /\ LET r == ClassifyContour(contours[idx], text_regions, detected_lines)
       IN /\ trace' = Append(trace, r)
          /\ strikethrough_mask' =
                IF r.stamped
                THEN drawContours(strikethrough_mask, contours[idx])
                ELSE strikethrough_mask
    /\ idx' = idx + 1
    /\ UNCHANGED <<stdin, scene, pc, base64_input, called, exc, result, stdout,
                   exit_code, opencv_image, binary, text_regions,
                   detected_lines, contours, thick_lines, cleaned_image>>

\* lines 77-78, after the loop.
dilate_mask ==
    /\ pc = "loop"
    /\ idx > Len(contours)
    /\ thick_lines' = MorphDilate(strikethrough_mask, kernel_dilate)
    /\ pc' = "composite"
    /\ UNCHANGED <<stdin, scene, base64_input, called, exc, result, stdout,
                   exit_code, opencv_image, binary, text_regions,
                   detected_lines, contours, idx, trace, strikethrough_mask,
                   cleaned_image>>

\* lines 81-85.
composite ==
    /\ pc = "composite"
    /\ cleaned_image' = bitwise_and(opencv_image, bitwise_not(thick_lines))
    /\ pc' = "encode"
    /\ UNCHANGED <<stdin, scene, base64_input, called, exc, result, stdout,
                   exit_code, opencv_image, binary, text_regions,
                   detected_lines, contours, idx, trace, strikethrough_mask,
                   thick_lines>>

\* process_base64_image, lines 103-114.
encode ==
    /\ pc = "encode"
    /\ result' = <<SuccessResult(cleaned_image)>>
    /\ pc' = "print"
    /\ UNCHANGED <<stdin, scene, base64_input, called, exc, stdout, exit_code>>
    /\ UNCHANGED pipeVars

\* main, line 140, and the normal end of the process.
main_print ==
    /\ pc = "print"
    /\ stdout' = Append(stdout, result[1])
    /\ pc' = "exited"
    /\ UNCHANGED <<stdin, scene, base64_input, called, exc, result, exit_code>>
    /\ UNCHANGED pipeVars

Next ==
    \/ main_read
    \/ main_except
    \/ decode
    \/ binarize
    \/ close_text
    \/ open_lines
    \/ find_contours
    \/ classify_contour
    \/ dilate_mask
    \/ composite
    \/ encode
    \/ main_print

Spec == Init /\ [][Next]_vars

\* ------------------------------------------------------------ the claims
Exited == pc = "exited"
Succeeded == Len(result) = 1 /\ result[1].success
\* The composite (line 84) has been computed.
Composited == pc = "encode" \/ (pc \in {"print", "exited"} /\ Succeeded)
\* The image was decoded (line 97 has run without raising).
Decoded ==
    called /\ pc \notin {"main", "decode", "except"}
           /\ DecodeException(base64_input) = NoExc

Zero == <<0, 0, 0>>
PixelsOfRect(r) == {p \in Cols \X Rows : InRect(r, p[1], p[2])}

\* The 3 wide x 8 tall dilation of mask m at pixel <<x, y>>: the kernel
\* window around <<x, y>> (columns x-1..x+1, rows y-4..y+3) meets m.
InDilation(m, x, y) ==
    \E py \in (y - (DILATE_KH \div 2))..(y + DILATE_KH - (DILATE_KH \div 2) - 1) :
       \E px \in (x - (DILATE_KW \div 2))..(x + DILATE_KW - (DILATE_KW \div 2) - 1) :
          py \in Rows /\ px \in m[py]
\* The mask holding the filled contour c alone.
MaskOfContour(c) ==
    Table([y \in Rows |-> UNION { r[2]..r[3] : r \in {q \in c : q[1] = y} }])

Entries == {trace[i] : i \in 1..Len(trace)}
Classified(e) == ~e.skipped /\ e.text_pixels > 0 /\ e.line_cnt > 0
\* 0.2 < relative_position < 0.8 for the entry's relative_position.
InMiddle(e) == 5 * e.num > e.den /\ 5 * e.num < 4 * e.den
\* The trace entry whose contour holds detected pixels of the rows of rect l.
EntriesOf(l) ==
    {e \in Entries : \E r \in e.contour : r[1] >= l.y /\ r[1] < l.y + l.h}

\* C1: Strikethrough removal.  For an image with a horizontal line at least
\* 40 px long that crosses a glyph (the glyph reaches above and below the
\* line) and whose candidate has 0.2 < relative_position < 0.8, the
\* candidate is stamped, every pixel in the 3x8 dilation of the candidate
\* and every pixel of the drawn line is zero (the fill value of the
\* composite) in the output, and every glyph pixel outside the dilated mask
\* is unchanged.
C1_StrikethroughRemoved ==
    (Composited /\ scene.L1.w >= HORIZ_KW /\ scene.G.w > 0
       /\ scene.G.y < scene.L1.y
       /\ scene.G.y + scene.G.h > scene.L1.y + scene.L1.h)
    => \A e \in EntriesOf(scene.L1) :
          (Classified(e) /\ InMiddle(e)) =>
             /\ e.stamped
             /\ LET m == MaskOfContour(e.contour)
                IN \A y \in Rows : \A x \in Cols :
                      InDilation(m, x, y) => cleaned_image[y][x] = Zero
             /\ \A p \in PixelsOfRect(scene.L1) :
                   cleaned_image[p[2]][p[1]] = Zero
             /\ \A p \in PixelsOfRect(scene.G) :
                   p[1] \notin thick_lines[p[2]] =>
                      cleaned_image[p[2]][p[1]] = opencv_image[p[2]][p[1]]

\* C1 witness: a gray line across a glyph was stamped and blanked, and a
\* glyph pixel outside the dilated mask survives.
C1_Witness ==
    /\ Exited /\ Succeeded
    /\ scene.L1.w >= HORIZ_KW /\ scene.G.w > 0 /\ scene.ink = Gray180
    /\ scene.G.y < scene.L1.y
    /\ scene.G.y + scene.G.h > scene.L1.y + scene.L1.h
    /\ \E e \in EntriesOf(scene.L1) : Classified(e) /\ InMiddle(e) /\ e.stamped
    /\ \A p \in PixelsOfRect(scene.L1) : cleaned_image[p[2]][p[1]] = Zero
    /\ \E p \in PixelsOfRect(scene.G) :
          /\ p[1] \notin thick_lines[p[2]]
          /\ cleaned_image[p[2]][p[1]] = <<180, 180, 180>>

\* A drawn rectangle that lies wholly inside the image.
Visible(r) ==
    r.w > 0 /\ r.h > 0 /\ r.x >= 0 /\ r.y >= 0
            /\ r.x + r.w <= ImgW /\ r.y + r.h <= ImgH
\* A drawn line of at least 40 px that touches neither side of the image.
LongInterior(l) == l.w >= HORIZ_KW /\ l.x > 0 /\ l.x + l.w < ImgW

\* C2: Underline preservation.  For an image whose only horizontal line (at
\* least 40 px long, away from the image sides) lies strictly below the
\* vertical span of the glyphs, whatever its thickness and its distance
\* below the glyphs, the line is not stamped into the strikethrough mask and
\* every pixel of the line is the same in the output and the input.
C2_UnderlinePreserved ==
    (Composited /\ scene.L2 = NoRect /\ Visible(scene.G)
       /\ LongInterior(scene.L1)
       /\ scene.G.y + scene.G.h <= scene.L1.y)
    => /\ \A e \in EntriesOf(scene.L1) : ~e.stamped
       /\ \A p \in PixelsOfRect(scene.L1) :
             cleaned_image[p[2]][p[1]] = opencv_image[p[2]][p[1]]

\* A run of the binary image shorter than the minimum width.
ShortRuns == {r \in RunsOf(binary) : r[3] - r[2] + 1 < MIN_WIDTH}

\* C3: Noise rejection.  No pixel of a horizontal stroke (a maximal run of
\* the binary image) shorter than 20 px is in the detected lines, wherever
\* the stroke lies, so no candidate is made of it; every candidate that
\* reaches classification is at least 20 px wide; and when every stroke of
\* the image is shorter than 20 px nothing is masked.
C3_NoiseRejected ==
    /\ \A r \in ShortRuns : (r[2]..r[3]) \cap detected_lines[r[1]] = {}
    /\ \A e \in Entries : ~e.skipped => e.box.w >= MIN_WIDTH
    /\ (pc \in {"composite", "encode", "print", "exited"} /\ Decoded
          /\ ShortRuns = RunsOf(binary))
       => thick_lines = EmptyMask

\* C3 witness: a 19 px stroke touching the right edge went through the
\* whole pipeline and nothing was masked.
C3_Witness ==
    /\ Exited /\ Succeeded
    /\ scene.L1.w = MIN_WIDTH - 1 /\ scene.L1.x + scene.L1.w = ImgW
    /\ ShortRuns # {} /\ ShortRuns = RunsOf(binary)
    /\ thick_lines = EmptyMask

\* C4: Unchanged output when nothing is detected.  When the strikethrough
\* mask is empty after the loop (no candidate, or every candidate discarded
\* or not classified as strikethrough) the output equals the input pixel
\* for pixel; and remove_strikethrough_lines never fails: every decoded
\* image ends in a success result.
C4_UnchangedWhenNothingDetected ==
    /\ (Composited /\ strikethrough_mask = EmptyMask)
          => cleaned_image = opencv_image
    /\ (Exited /\ Decoded) => (Succeeded /\ exc = NoExc)

\* C4 witness: a candidate was classified, not stamped, and the output is
\* the input.
C4_Witness ==
    /\ Exited /\ Succeeded
    /\ Len(trace) >= 1
    /\ strikethrough_mask = EmptyMask
    /\ cleaned_image = opencv_image

\* C5: Frame of the composite.  The decoded input image is never changed
\* after decoding; the strikethrough mask is the union of the filled
\* contours of the stamped candidates; every output pixel outside the 3x8
\* dilation of that mask equals the input pixel, and every output pixel
\* inside it is zero in all channels.
C5_CompositeFrame ==
    /\ Decoded => opencv_image = SwapRB(RenderRGB(scene))
    /\ Composited =>
          LET m == Table([y \in Rows |->
                      UNION { MaskOfContour(e.contour)[y] :
                                 e \in {d \in Entries : d.stamped} }])
          IN /\ strikethrough_mask = m
             /\ \A y \in Rows : \A x \in Cols :
                   IF InDilation(m, x, y)
                   THEN cleaned_image[y][x] = Zero
                   ELSE cleaned_image[y][x] = opencv_image[y][x]

\* C5 witness: the output differs from the input, so some pixel inside the
\* dilated mask was zeroed, and some non-zero pixel was kept.
C5_Witness ==
    /\ Exited /\ Succeeded
    /\ cleaned_image # opencv_image
    /\ \E y \in Rows : \E x \in Cols :
          cleaned_image[y][x] # Zero /\ cleaned_image[y][x] # <<255, 255, 255>>

\* The documented failure object of process_base64_image.
IsProcessFailure(j) ==
    /\ DOMAIN j = {"success", "error", "message"}
    /\ j.success = FALSE
    /\ j.error # ""
    /\ j.message = "Failed to process image"

\* C6 as stated: every non-empty stdin payload that is not (whitespace
\* aside) the base64 text of a decodable image, or on which a step raises,
\* ends in one process-failure object and exit code 0.
C6_MalformedInputOriginal ==
    (Exited /\ stdin # <<>>
       /\ (strip(stdin) \notin {<<"PNGRGB">>, <<"PNGGRAY">>}
             \/ DecodeException(strip(stdin)) # NoExc))
    => /\ Len(stdout) = 1
       /\ IsProcessFailure(stdout[1])
       /\ exit_code = 0

\* C6 as amended: every stdin payload that read() returns as text, that is
\* non-empty after strip() and on which a step of process_base64_image
\* raises an Exception ends in one process-failure object (success false,
\* error populated, message "Failed to process image", no processedImage)
\* and exit code 0.
C6_MalformedInput ==
    (Exited /\ ~ReadRaises(stdin) /\ strip(stdin) # <<>>
       /\ DecodeException(strip(stdin)) # NoExc)
    => /\ Len(stdout) = 1
       /\ IsProcessFailure(stdout[1])
       /\ exit_code = 0

\* C6 witness: bytes that are no image were reported and the exit code is 0.
C6_Witness ==
    /\ Exited /\ stdin = <<"TEXT">>
    /\ Len(stdout) = 1 /\ IsProcessFailure(stdout[1]) /\ exit_code = 0

\* C7: Empty-input contract.  When stdin is empty or only whitespace,
\* process_base64_image is never called, and the process ends with exactly
\* the no-input object (success false, message "No base64 data provided via
\* stdin", no processedImage) printed and exit code 1.
C7_EmptyInput ==
    (~ReadRaises(stdin) /\ \A t \in Range(stdin) : t \in Whitespace)
    => /\ ~called
       /\ Exited =>
             /\ Len(stdout) = 1
             /\ DOMAIN stdout[1] = {"success", "error", "message"}
             /\ stdout[1].success = FALSE
             /\ stdout[1].message = "No base64 data provided via stdin"
             /\ exit_code = 1

\* C7 witness: whitespace-only input ended with exit code 1.
C7_Witness ==
    /\ Exited /\ stdin = <<"\n", " ">>
    /\ Len(stdout) = 1 /\ exit_code = 1 /\ ~called

IsSuccessJson(j) ==
    /\ DOMAIN j = {"success", "processedImage", "message"}
    /\ j.success = TRUE
IsFailureJson(j, messages) ==
    /\ DOMAIN j = {"success", "error", "message"}
    /\ j.success = FALSE
    /\ j.message \in messages

DocumentedMessages ==
    {"Failed to process image", "No base64 data provided via stdin"}
EmittedMessages ==
    DocumentedMessages \cup {"Failed to read input or process data"}

Envelope(messages) ==
    Exited =>
       /\ Len(stdout) = 1
       /\ IsSuccessJson(stdout[1]) \/ IsFailureJson(stdout[1], messages)
       /\ ("processedImage" \in DOMAIN stdout[1]) <=> stdout[1].success
       /\ (exit_code = 0) <=> (Len(result) = 1 /\ stdout = result)

\* C8 as stated: on every path exactly one JSON object is printed, it is a
\* success object or a failure object with one of the two documented
\* messages, processedImage is present exactly when success is true, and the
\* exit code is 0 exactly when the result of process_base64_image was
\* printed.
C8_OutputEnvelopeOriginal == Envelope(DocumentedMessages)

\* C8 as amended: the same, with the outer handler's message "Failed to
\* read input or process data" among the failure messages.
C8_OutputEnvelope == Envelope(EmittedMessages)

\* C8 witness: the outer handler printed its object and the exit code is 1.
C8_Witness ==
    /\ Exited /\ exc.type = "UnicodeDecodeError"
    /\ Len(stdout) = 1
    /\ stdout[1].message = "Failed to read input or process data"
    /\ exit_code = 1

\* C9: Line with no nearby text.  In an image with a single line (at least
\* 40 px long, away from the image sides, 2 px thick or more) and no glyph,
\* the line's candidate has a cropped text mask with zero foreground pixels
\* and is never stamped into the strikethrough mask.
C9_NoTextSkipped ==
    (scene.G = NoRect /\ scene.L2 = NoRect /\ LongInterior(scene.L1)
       /\ scene.L1.h >= 2)
    => \A e \in Entries : e.text_pixels = 0 /\ ~e.stamped

\* The rows (relative to the crop) and the number of the candidate's own
\* pixels.
OwnCount(e, yy) ==
    Cardinality(UNION { r[2]..r[3] : r \in {q \in e.contour : q[1] = yy} })
OwnCnt(e) ==
    SumRange([yy \in e.y_start..(e.y_end - 1) |-> OwnCount(e, yy)],
             e.y_start, e.y_end - 1)
OwnSum(e) ==
    SumRange([yy \in e.y_start..(e.y_end - 1) |->
                 (yy - e.y_start) * OwnCount(e, yy)],
             e.y_start, e.y_end - 1)

\* C10: line_center of a classified candidate (line_sum / line_cnt) is the
\* mean row of the candidate's own pixels, and its classification is the one
\* that mean gives, whether or not other candidates have pixels in its
\* padded window (here: lines of at least 40 px away from the image sides).
C10_OwnLineCenter ==
    \A e \in Entries :
       (Classified(e) /\ LongInterior(scene.L1)) =>
          /\ e.line_sum * OwnCnt(e) = OwnSum(e) * e.line_cnt
          /\ e.stamped =
               IsStrikethrough(OwnSum(e) - e.text_top * OwnCnt(e),
                               OwnCnt(e) * Max2(e.text_height, 1))

====
